---- MODULE Spec2Model ----
(***************************************************************************)
(* Extraction relay of settlement-letter-helper (server.js).               *)
(*                                                                         *)
(* One inbound request at a time travels through the middleware chain      *)
(* (request id, JSON body parser), the POST /extract handler (credential   *)
(* gate, validateRequest, the single upstream fetch raced against the      *)
(* deadline timer) and ends in a response.  Requests follow one another.   *)
(*                                                                         *)
(* Abstractions                                                            *)
(*  - a base64 string is represented by its length only;                   *)
(*  - JSON values that the relay never inspects are opaque tokens;         *)
(*  - an absent / undefined JavaScript property is the token Undef.        *)
(***************************************************************************)
EXTENDS Integers, Sequences, FiniteSets, TLC

VARIABLES
    apiKey,      \* process.env.ANTHROPIC_API_KEY is set
    pc,          \* position of the request in the middleware chain / handler
    req,         \* the inbound HTTP request (as received on the wire)
    requestId,   \* req.requestId
    validation,  \* result of validateRequest(req.body)
    timer,       \* timeoutId: "unarmed", "armed", "cleared" or "fired"
    aborted,     \* controller.signal.aborted
    calls,       \* number of fetch() calls issued for this request
    upstream,    \* how the upstream behaves for the call in flight
    outbound,    \* body of the request sent upstream
    fetched,     \* response.status once fetch() has resolved, else 0
    fetchedBody, \* the upstream body once response.json() has settled
    resHeader,   \* X-Request-ID header set on res
    response,    \* what was sent to the caller
    sent,        \* number of responses emitted for this request
    caught,      \* message of the error caught for this request, if any
    health,      \* the last answer of GET /health
    conc,        \* the requests in flight when several are handled at once
    variant      \* the invocation handled by one of the other deployments

vars == << apiKey, pc, req, requestId, validation, timer, aborted, calls,
           upstream, outbound, fetched, fetchedBody, resHeader, response,
           sent, caught, health, conc, variant >>

\* the state of the request followed through the chain
single == << pc, req, requestId, validation, timer, aborted, calls,
            upstream, outbound, fetched, fetchedBody, resHeader, response,
            sent, caught >>

-----------------------------------------------------------------------------
(* Configuration                                                           *)

maxFileSize == 50 * 1024 * 1024
apiTimeout == 28000
model == "claude-sonnet-4-20250514"
maxTokens == 4096

CONFIG == [maxFileSize |-> maxFileSize, apiTimeout |-> apiTimeout,
           model |-> model, maxTokens |-> maxTokens]

\* express.json({ limit: CONFIG.maxFileSize }): byte limit of the parser
jsonLimit == CONFIG.maxFileSize

-----------------------------------------------------------------------------
(* Values                                                                  *)

Undef == "<undefined>"
Absent == "<absent>"

\* variant of validMediaTypes: 'image/jpg' is left out
validMediaTypesWithoutJpg == << "application/pdf", "image/jpeg",
                                "image/png", "image/gif", "image/webp" >>

validMediaTypes == << "application/pdf", "image/jpeg", "image/jpg",
                      "image/png", "image/gif", "image/webp" >>

Range(s) == { s[i] : i \in 1..Len(s) }

\* the inputs the requests are drawn from
ContentTypes == { Undef, "image", "document", "text" }
SourceTypes == { Undef, "base64", "url" }
MediaTypes == { Undef, "application/zip", "application/pdf", "image/jpeg",
                "image/jpg", "image/png", "image/gif", "image/webp" }

\* lengths of base64 strings: empty, small, the largest whose estimate
\* is within maxFileSize, the smallest whose estimate is above it
MaxPassingLength == (4 * maxFileSize) \div 3
StringLengths == { 0, 4, MaxPassingLength, MaxPassingLength + 1 }
\* "length" property of a data value that is a JSON object
ObjectLengths == { 0, 4, MaxPassingLength, MaxPassingLength + 1 }

NoData == [kind |-> "undef", len |-> 0]
DataValues == { NoData }
              \cup [kind : {"string"}, len : StringLengths]
              \cup [kind : {"object"}, len : ObjectLengths]

\* extra: the source object has a property besides type, media_type
\* and data
NoSource == [present |-> FALSE, type |-> Undef, media_type |-> Undef,
             data |-> NoData, extra |-> FALSE]
Sources == { NoSource }
           \cup [present : {TRUE}, type : SourceTypes,
                 media_type : MediaTypes, data : DataValues,
                 extra : BOOLEAN]

NoBlock == [type |-> Undef, source |-> NoSource]
Blocks == [type : ContentTypes, source : Sources]

\* shape of req.body: "empty" is {} (no messages), "emptyContent" has
\* messages[0].content = [], "falsyBlock" has content[0] = null,
\* "block" has an object at messages[0].content[0]
Bodies == [shape : {"empty", "emptyContent", "falsyBlock"}, content : {NoBlock}]
          \cup [shape : {"block"}, content : Blocks]

\* bytes of the HTTP body besides the base64 string
MinEnvelope == 100
Pads == { MinEnvelope, jsonLimit, jsonLimit + 1 }

MalformedRequest == [json |-> "malformed", pad |-> MinEnvelope,
                     body |-> [shape |-> "empty", content |-> NoBlock]]
Requests == { MalformedRequest }
            \cup [json : {"ok"}, pad : Pads, body : Bodies]

RequestIds == { "1b9d6bcd", "9c4f0e2a" }

\* byte length of the HTTP body: a string of n characters takes at
\* least n bytes
BodyBytes(r) ==
    r.pad + (IF r.body.content.source.data.kind = "string"
             THEN r.body.content.source.data.len ELSE 0)

-----------------------------------------------------------------------------
(* validateRequest                                                         *)

Reason(text) == [reason |-> text, allowed |-> << >>, maxMB |-> 0]

MissingContent == Reason("Missing document content")
InvalidContentType == Reason("Invalid content type. Must be \"image\" or \"document\"")
InvalidSourceType == Reason("Invalid source type. Must be \"base64\"")
MissingData == Reason("Missing base64 data")
InvalidMediaType == [reason |-> "Invalid media type. Allowed: ",
                     allowed |-> validMediaTypes, maxMB |-> 0]
FileTooLarge == [reason |-> "File too large. Maximum size: ",
                 allowed |-> << >>,
                 maxMB |-> CONFIG.maxFileSize \div (1024 * 1024)]

\* body?.messages?.[0]?.content?.[0] is truthy
HasContent(body) == body.shape = "block"

\* !content.source?.data
DataFalsy(d) == d.kind = "undef" \/ (d.kind = "string" /\ d.len = 0)

\* content.source?.data?.length || 0
DataLength(d) == IF d.kind = "undef" THEN 0 ELSE d.len

\* variant of SizeExceeded: the length is compared without the 0.75 factor
SizeExceededRawLength(d) == DataLength(d) > CONFIG.maxFileSize

\* estimatedSize > CONFIG.maxFileSize, where estimatedSize = length * 0.75
\* (exact in double precision for these magnitudes): 3 * length > 4 * max
SizeExceeded(d) == 3 * DataLength(d) > 4 * CONFIG.maxFileSize

\* variant of validateRequest: it returns at the first failing check
validateRequestFirstOnly(body) ==
    IF ~HasContent(body)
    THEN [valid |-> FALSE, errors |-> << MissingContent >>]
    ELSE LET content == body.content
             e1 == IF content.type = Undef
                      \/ content.type \notin {"image", "document"}
                   THEN << InvalidContentType >> ELSE << >>
             e2 == IF content.source.type = Undef
                      \/ content.source.type # "base64"
                   THEN << InvalidSourceType >> ELSE << >>
             e3 == IF DataFalsy(content.source.data)
                   THEN << MissingData >> ELSE << >>
             e4 == IF content.source.media_type \notin Range(validMediaTypes)
                   THEN << InvalidMediaType >> ELSE << >>
             e5 == IF SizeExceeded(content.source.data)
                   THEN << FileTooLarge >> ELSE << >>
             all == e1 \o e2 \o e3 \o e4 \o e5
             errors == IF all = << >> THEN all ELSE << Head(all) >>
         IN  [valid |-> errors = << >>, errors |-> errors]

\* variant of validateRequest: the missing-content check does not return
validateRequestNoReturn(body) ==
    LET content == body.content
        e0 == IF ~HasContent(body) THEN << MissingContent >> ELSE << >>
        e1 == IF content.type = Undef
                 \/ content.type \notin {"image", "document"}
              THEN << InvalidContentType >> ELSE << >>
        e2 == IF content.source.type = Undef
                 \/ content.source.type # "base64"
              THEN << InvalidSourceType >> ELSE << >>
        e3 == IF DataFalsy(content.source.data)
              THEN << MissingData >> ELSE << >>
        e4 == IF content.source.media_type \notin Range(validMediaTypes)
              THEN << InvalidMediaType >> ELSE << >>
        e5 == IF SizeExceeded(content.source.data)
              THEN << FileTooLarge >> ELSE << >>
        errors == e0 \o e1 \o e2 \o e3 \o e4 \o e5
    IN  [valid |-> errors = << >>, errors |-> errors]

validateRequest(body) ==
    IF ~HasContent(body)
    THEN [valid |-> FALSE, errors |-> << MissingContent >>]
    ELSE LET content == body.content
             e1 == IF content.type = Undef
                      \/ content.type \notin {"image", "document"}
                   THEN << InvalidContentType >> ELSE << >>
             e2 == IF content.source.type = Undef
                      \/ content.source.type # "base64"
                   THEN << InvalidSourceType >> ELSE << >>
             e3 == IF DataFalsy(content.source.data)
                   THEN << MissingData >> ELSE << >>
             e4 == IF content.source.media_type \notin Range(validMediaTypes)
                   THEN << InvalidMediaType >> ELSE << >>
             e5 == IF SizeExceeded(content.source.data)
                   THEN << FileTooLarge >> ELSE << >>
             errors == e1 \o e2 \o e3 \o e4 \o e5
         IN  [valid |-> errors = << >>, errors |-> errors]

NoValidation == [valid |-> FALSE, errors |-> << >>]

\* buildExtractionPrompt(): a fixed template
buildExtractionPrompt == "Extract debt settlement payment details from this document. ..."

-----------------------------------------------------------------------------
(* Upstream                                                                *)

\* behaviour of the upstream for one call: it answers (headers, then the
\* body), it sends the headers and never finishes the body, the
\* connection fails, or nothing ever comes back
UpstreamModes == { "responds", "stallsBody", "fails", "silent" }

Statuses == { 200, 400, 401, 429, 503 }
Ok(status) == status >= 200 /\ status < 300

\* body of a non-success answer: not JSON, the JSON value null, a JSON
\* object without error.message, a JSON object with error.message
ErrorBodyKinds == { "unparseable", "null", "noMessage", "message" }
\* body of a success answer: not JSON, the JSON value null, a JSON object
JsonObjects == { "jsonA", "jsonB" }
SuccessBodyKinds == { "unparseable", "null" } \cup JsonObjects

UpstreamMessage == "<errorData.error.message>"
NetworkErrorText == "<FetchError: request to upstream failed>"
NetworkErrorTexts == { NetworkErrorText,
                       "<FetchError: getaddrinfo ENOTFOUND upstream>" }
AbortErrorText == "The user aborted a request."
\* errors raised by express.json
SyntaxErrorText == "<SyntaxError: Unexpected token in JSON>"
TooLargeText == "request entity too large"
InvalidJsonText == "<FetchError: invalid json response body>"
NullErrorText == "Cannot read properties of null (reading 'error')"
NullUsageText == "Cannot read properties of null (reading 'usage')"

\* `API Error: ${response.status}`
ApiErrorText(status) ==
    CASE status = 400 -> "API Error: 400"
      [] status = 401 -> "API Error: 401"
      [] status = 429 -> "API Error: 429"
      [] status = 503 -> "API Error: 503"

NoOutbound == [model |-> Absent, max_tokens |-> 0, role |-> Absent,
               document |-> NoBlock, extra |-> FALSE, text |-> Absent]

\* variant of OutboundBody: the inbound source object is forwarded whole
OutboundBodyWholeSource(content) ==
    [model |-> CONFIG.model, max_tokens |-> CONFIG.maxTokens, role |-> "user",
     document |-> [type |-> content.type, source |-> content.source],
     extra |-> FALSE,
     text |-> buildExtractionPrompt]

\* JSON body of the fetch() call
OutboundBody(content) ==
    [model |-> CONFIG.model, max_tokens |-> CONFIG.maxTokens, role |-> "user",
     document |-> [type |-> content.type,
                   source |-> [present |-> TRUE, type |-> "base64",
                               media_type |-> content.source.media_type,
                               data |-> content.source.data,
                               extra |-> FALSE]],
     extra |-> FALSE,
     text |-> buildExtractionPrompt]

-----------------------------------------------------------------------------
(* Responses                                                               *)

NoDetails == [kind |-> "none", list |-> << >>, text |-> Absent]
DetailsList(errors) == [kind |-> "list", list |-> errors, text |-> Absent]
DetailsText(text) == [kind |-> "text", list |-> << >>, text |-> text]

ErrorBody(error, details, suggestion, rid) ==
    [error |-> error, details |-> details, suggestion |-> suggestion,
     requestId |-> rid, data |-> Absent]

\* res.json(data): the parsed upstream body and nothing else
PassThrough(data) ==
    [error |-> Absent, details |-> NoDetails, suggestion |-> Absent,
     requestId |-> Absent, data |-> data]

NoResponse == [status |-> 0, body |-> PassThrough(Absent), header |-> Absent]

\* GET /health
NoHealth == [status |-> 0, body |-> [status |-> Absent, apiConfigured |-> FALSE]]
HealthBody == [status |-> "ok", apiConfigured |-> apiKey]

ConfigErrorText == "API Key is not configured. Please set ANTHROPIC_API_KEY in environment variables."
InvalidRequestText == "Invalid request"
InvalidKeyText == "Invalid API key. Please check your ANTHROPIC_API_KEY configuration."
RateLimitText == "Rate limit exceeded. Please wait a moment and try again."
InvalidDocumentText == "Invalid document format. Please ensure the file is a valid PDF or image."
TimeoutText == "Processing timeout. The document took too long to analyze."
SuggestionText == "Try uploading a screenshot (PNG/JPG) instead of a PDF, or use a smaller file."
FailedText == "Failed to process document"
UnexpectedText == "An unexpected error occurred"

\* res.status(status).json(body)
Send(status, body) ==
    /\ response' = [status |-> status, body |-> body, header |-> resHeader]
    /\ sent' = sent + 1
    /\ pc' = "responded"

\* variant of CatchBody: the correlation identifier is left out
CatchBodyWithoutId(message) ==
    ErrorBody(IF message = "" THEN "Failed to process document" ELSE message,
              NoDetails, Absent, Absent)

\* variant of CatchBody: the caller always gets the fixed text
CatchBodyGeneric(message) ==
    ErrorBody("Failed to process document", NoDetails, Absent, requestId)

\* catch (error) of the handler for an error that is not an AbortError:
\* error.message || 'Failed to process document'
CatchBody(message) ==
    ErrorBody(IF message = "" THEN FailedText ELSE message,
              NoDetails, Absent, requestId)

\* body sent for a non-success upstream status once errorData is known
\* (errorData is not null)
UpstreamErrorStatus(status) ==
    CASE status = 401 -> 500
      [] status = 429 -> 429
      [] status = 400 -> 400
      [] OTHER -> 500

UpstreamErrorBody(status, errorMessage) ==
    CASE status = 401 -> ErrorBody(InvalidKeyText, NoDetails, Absent, requestId)
      [] status = 429 -> ErrorBody(RateLimitText, NoDetails, Absent, requestId)
      [] status = 400 -> ErrorBody(InvalidDocumentText, DetailsText(errorMessage),
                                   Absent, requestId)
      [] OTHER -> CatchBody(errorMessage)

-----------------------------------------------------------------------------
(* Requests in flight at the same time                                     *)

NumSlots == 2
Slots == 1..NumSlots

\* the locals of one run of the POST /extract handler
IdleSlot == [pc |-> "idle", req |-> MalformedRequest, timer |-> "unarmed",
             aborted |-> FALSE, calls |-> 0, upstream |-> "silent",
             fetched |-> 0, fetchedBody |-> Absent, status |-> 0]

\* the requests sent when several are in flight
PngRequest ==
    [json |-> "ok", pad |-> MinEnvelope,
     body |-> [shape |-> "block",
               content |-> [type |-> "image",
                            source |-> [present |-> TRUE, type |-> "base64",
                                        media_type |-> "image/png",
                                        data |-> [kind |-> "string", len |-> 4],
                                        extra |-> FALSE]]]]
ZipRequest ==
    [PngRequest EXCEPT !.body.content.source.media_type = "application/zip"]
EmptyRequest ==
    [json |-> "ok", pad |-> MinEnvelope,
     body |-> [shape |-> "empty", content |-> NoBlock]]
ConcRequests == { PngRequest, ZipRequest, EmptyRequest, MalformedRequest }

-----------------------------------------------------------------------------
(* The other deployments: the function handler of                          *)
(* netlify/functions/extract.js and the servers of unnamed/part_000 and    *)
(* unnamed/part_001                                                        *)

VariantKinds == { "netlify", "part_000", "part_001" }
ServerKinds == { "part_000", "part_001" }
Methods == { "OPTIONS", "GET", "POST" }

\* setTimeout(() => controller.abort(), ...) of each deployment
variantTimeout(k) == IF k = "netlify" THEN 9500 ELSE 28000
variantModel(k) ==
    IF k = "part_001" THEN "claude-3-5-sonnet-20241022"
    ELSE "claude-sonnet-4-20250514"
\* express.json({ limit: '50mb' })
variantLimit == 50 * 1024 * 1024

\* requests sent to these deployments: the body is the JSON value null,
\* or data is an object whose length exceeds the bound
NullRequest == [EmptyRequest EXCEPT !.json = "null"]
OversizedRequest ==
    [PngRequest EXCEPT !.body.content.source.data =
                           [kind |-> "object", len |-> MaxPassingLength + 1]]
VariantRequests == { PngRequest, ZipRequest, EmptyRequest, OversizedRequest,
                     MalformedRequest, NullRequest }

MethodNotAllowedText == "Method Not Allowed"
NullPayloadText == "Cannot read properties of null (reading 'messages')"
UndefinedBlockText == "Cannot read properties of undefined (reading '0')"
variantConfigErrorText(k) ==
    CASE k = "netlify" -> "API Key is not configured. Please add ANTHROPIC_API_KEY to Netlify environment variables."
      [] k = "part_000" -> "API Key is not configured. Please set ANTHROPIC_API_KEY in Heroku Config Vars."
      [] OTHER -> "API Key is not configured in Heroku Config Vars."
variantTimeoutText(k) ==
    CASE k = "netlify" -> "Request timeout: Document processing took too long (>9.5s). Try uploading a smaller file or a screenshot instead of the full PDF."
      [] k = "part_000" -> "Timeout: Processing took longer than 28 seconds. Please upload a smaller file or screenshot instead of full PDF."
      [] OTHER -> "Timeout: Heroku limit reached (28s). Please upload a smaller screenshot."

\* body of the fetch() call: the type and the whole source of the block
variantOutbound(k, content) ==
    [model |-> variantModel(k), max_tokens |-> 4096,
     type |-> content.type, source |-> content.source]
NoVariantOutbound ==
    [model |-> Absent, max_tokens |-> 0, type |-> Undef, source |-> NoSource]

IdleVariant ==
    [kind |-> "none", pc |-> "idle", method |-> "POST",
     req |-> MalformedRequest, timer |-> "unarmed", deadline |-> 0,
     aborted |-> FALSE, calls |-> 0, upstream |-> "silent",
     outbound |-> NoVariantOutbound, fetched |-> 0, fetchedBody |-> Absent,
     status |-> 0, error |-> Absent, data |-> Absent, sent |-> 0]

\* return { statusCode, body } / res.status().json()
Return(v, status, error, data) ==
    [v EXCEPT !.pc = "returned", !.status = status, !.error = error,
              !.data = data, !.sent = @ + 1]

Variant(v) ==
    /\ variant' = v
    /\ UNCHANGED << apiKey, single, health, conc >>

-----------------------------------------------------------------------------
(* The process                                                             *)

Init ==
    /\ apiKey \in BOOLEAN
    /\ pc = "idle"
    /\ req = MalformedRequest
    /\ requestId = Absent
    /\ validation = NoValidation
    /\ timer = "unarmed"
    /\ aborted = FALSE
    /\ calls = 0
    /\ upstream = "silent"
    /\ outbound = NoOutbound
    /\ fetched = 0
    /\ fetchedBody = Absent
    /\ resHeader = Absent
    /\ response = NoResponse
    /\ sent = 0
    /\ caught = Absent
    /\ health = NoHealth
    /\ conc = [i \in Slots |-> IdleSlot]
    /\ variant = IdleVariant

\* request ID middleware, on the arrival of a request
requestIdMiddleware ==
    /\ pc = "idle"
    /\ \E r \in Requests, id \in RequestIds :
          /\ req' = r
          /\ requestId' = id
          /\ resHeader' = id
    /\ pc' = "parser"
    /\ UNCHANGED << apiKey, validation, timer, aborted, calls, upstream,
                    outbound, fetched, fetchedBody, response, sent >>
    /\ UNCHANGED << caught, health, conc, variant >>

\* express.json accepts the body: next()
jsonParserAccept ==
    /\ pc = "parser"
    /\ req.json = "ok"
    /\ BodyBytes(req) <= jsonLimit
    /\ pc' = "handler"
    /\ UNCHANGED << apiKey, req, requestId, validation, timer, aborted, calls,
                    upstream, outbound, fetched, fetchedBody, resHeader,
                    response, sent >>
    /\ UNCHANGED << caught, health, conc, variant >>

\* express.json rejects the body (too large, or not JSON): next(err),
\* which runs the error handling middleware
jsonParserReject ==
    /\ pc = "parser"
    /\ req.json = "malformed" \/ BodyBytes(req) > jsonLimit
    /\ caught' = IF BodyBytes(req) > jsonLimit THEN TooLargeText
                 ELSE SyntaxErrorText
    /\ Send(500, ErrorBody(UnexpectedText, NoDetails, Absent, requestId))
    /\ UNCHANGED << apiKey, req, requestId, validation, timer, aborted, calls,
                    upstream, outbound, fetched, fetchedBody, resHeader >>
    /\ UNCHANGED << health, conc, variant >>

\* POST /extract: the credential is absent
extractNoApiKey ==
    /\ pc = "handler"
    /\ ~apiKey
    /\ Send(500, ErrorBody(ConfigErrorText, NoDetails, Absent, requestId))
    /\ UNCHANGED << apiKey, req, requestId, validation, timer, aborted, calls,
                    upstream, outbound, fetched, fetchedBody, resHeader >>
    /\ UNCHANGED << caught, health, conc, variant >>

\* variant of extractInvalid: validation runs before the credential gate
extractInvalidBeforeKey ==
    /\ pc = "handler"
    /\ validation' = validateRequest(req.body)
    /\ ~validation'.valid
    /\ Send(400, ErrorBody(InvalidRequestText, DetailsList(validation'.errors),
                           Absent, requestId))
    /\ UNCHANGED << apiKey, req, requestId, timer, aborted, calls,
                    upstream, outbound, fetched, fetchedBody, resHeader >>
    /\ UNCHANGED << caught, health, conc, variant >>

\* POST /extract: validation fails
extractInvalid ==
    /\ pc = "handler"
    /\ apiKey
    /\ validation' = validateRequest(req.body)
    /\ ~validation'.valid
    /\ Send(400, ErrorBody(InvalidRequestText, DetailsList(validation'.errors),
                           Absent, requestId))
    /\ UNCHANGED << apiKey, req, requestId, timer, aborted, calls,
                    upstream, outbound, fetched, fetchedBody, resHeader >>
    /\ UNCHANGED << caught, health, conc, variant >>

\* POST /extract: the timer is armed and fetch() is called; the handler
\* suspends at the await
extractFetch ==
    /\ pc = "handler"
    /\ apiKey
    /\ validation' = validateRequest(req.body)
    /\ validation'.valid
    /\ timer' = "armed"
    /\ outbound' = OutboundBody(req.body.content)
    /\ calls' = calls + 1
    /\ upstream' \in UpstreamModes
    /\ pc' = "awaitFetch"
    /\ UNCHANGED << apiKey, req, requestId, aborted, fetched, fetchedBody,
                    resHeader, response, sent >>
    /\ UNCHANGED << caught, health, conc, variant >>

\* variant of fetchResolve: the timer is left pending while the body is
\* read
fetchResolveKeepsTimer ==
    /\ pc = "awaitFetch"
    /\ upstream \in { "responds", "stallsBody" }
    /\ \E status \in Statuses :
          /\ fetched' = status
          /\ pc' = IF Ok(status) THEN "awaitJson" ELSE "awaitErrorJson"
    /\ UNCHANGED << apiKey, req, requestId, validation, timer, aborted, calls,
                    upstream, outbound, fetchedBody, resHeader, response,
                    sent >>
    /\ UNCHANGED << caught, health, conc, variant >>

\* fetch() resolves with the status line and headers: clearTimeout
fetchResolve ==
    /\ pc = "awaitFetch"
    /\ upstream \in { "responds", "stallsBody" }
    /\ \E status \in Statuses :
          /\ fetched' = status
          /\ pc' = IF Ok(status) THEN "awaitJson" ELSE "awaitErrorJson"
    /\ timer' = "cleared"
    /\ UNCHANGED << apiKey, req, requestId, validation, aborted, calls,
                    upstream, outbound, fetchedBody, resHeader, response,
                    sent >>
    /\ UNCHANGED << caught, health, conc, variant >>

\* variant of fetchReject: the call is issued again after a network error
fetchRejectRetry ==
    /\ pc = "awaitFetch"
    /\ upstream = "fails"
    /\ calls < 2
    /\ calls' = calls + 1
    /\ UNCHANGED << apiKey, pc, req, requestId, validation, timer, aborted,
                    upstream, outbound, fetched, fetchedBody, resHeader,
                    response, sent >>
    /\ UNCHANGED << caught, health, conc, variant >>

\* fetch() rejects with a network error: catch
fetchReject ==
    /\ pc = "awaitFetch"
    /\ upstream = "fails"
    /\ timer' = "cleared"
    /\ \E message \in NetworkErrorTexts :
          /\ caught' = message
          /\ Send(500, CatchBody(message))
    /\ UNCHANGED << apiKey, req, requestId, validation, aborted, calls,
                    upstream, outbound, fetched, fetchedBody, resHeader >>
    /\ UNCHANGED << health, conc, variant >>

\* variant of timerFire: the deadline answers 504 and leaves the pending
\* fetch() alone
timerFireWithoutAbort ==
    /\ timer = "armed"
    /\ timer' = "fired"
    /\ caught' = AbortErrorText
    /\ Send(504, ErrorBody(TimeoutText, NoDetails, SuggestionText, requestId))
    /\ UNCHANGED << apiKey, req, requestId, validation, aborted, calls,
                    upstream, outbound, fetched, fetchedBody, resHeader >>
    /\ UNCHANGED << health, conc, variant >>

\* the deadline timer fires: controller.abort() rejects the pending
\* fetch() with an AbortError, which the handler catches
timerFire ==
    /\ timer = "armed"
    /\ timer' = "fired"
    /\ aborted' = TRUE
    /\ caught' = AbortErrorText
    /\ Send(504, ErrorBody(TimeoutText, NoDetails, SuggestionText, requestId))
    /\ UNCHANGED << apiKey, req, requestId, validation, calls,
                    upstream, outbound, fetched, fetchedBody, resHeader >>
    /\ UNCHANGED << health, conc, variant >>

\* non-ok branch: response.json().catch(() => ({})) settles
errorBodySettle ==
    /\ pc = "awaitErrorJson"
    /\ upstream = "responds"
    /\ \E kind \in ErrorBodyKinds :
          /\ fetchedBody' = kind
          /\ IF kind = "null"
             THEN \* errorData.error throws a TypeError: catch
                  /\ caught' = NullErrorText
                  /\ Send(500, CatchBody(NullErrorText))
             ELSE LET errorMessage == IF kind = "message" THEN UpstreamMessage
                                      ELSE ApiErrorText(fetched)
                  IN  \* throw new Error(errorMessage) past the three tests
                      /\ caught' = IF fetched \in { 401, 429, 400 }
                                   THEN caught ELSE errorMessage
                      /\ Send(UpstreamErrorStatus(fetched),
                              UpstreamErrorBody(fetched, errorMessage))
    /\ UNCHANGED << apiKey, req, requestId, validation, timer, aborted, calls,
                    upstream, outbound, fetched, resHeader >>
    /\ UNCHANGED << health, conc, variant >>

\* ok branch: response.json() settles
successBodySettle ==
    /\ pc = "awaitJson"
    /\ upstream = "responds"
    /\ \E kind \in SuccessBodyKinds :
          /\ fetchedBody' = kind
          /\ CASE kind = "unparseable" ->
                     \* response.json() rejects: catch
                     /\ caught' = InvalidJsonText
                     /\ Send(500, CatchBody(InvalidJsonText))
                [] kind = "null" ->
                     \* data.usage throws a TypeError: catch
                     /\ caught' = NullUsageText
                     /\ Send(500, CatchBody(NullUsageText))
                [] OTHER ->
                     /\ caught' = caught
                     /\ Send(200, PassThrough(kind))
    /\ UNCHANGED << apiKey, req, requestId, validation, timer, aborted, calls,
                    upstream, outbound, fetched, resHeader >>
    /\ UNCHANGED << health, conc, variant >>

\* variant of requestDone: the controller and the error list live at
\* module level and survive the request
requestDoneKeepsState ==
    /\ pc = "responded"
    /\ pc' = "idle"
    /\ req' = MalformedRequest
    /\ requestId' = Absent
    /\ timer' = "unarmed"
    /\ calls' = 0
    /\ upstream' = "silent"
    /\ outbound' = NoOutbound
    /\ fetched' = 0
    /\ fetchedBody' = Absent
    /\ resHeader' = Absent
    /\ response' = NoResponse
    /\ sent' = 0
    /\ caught' = Absent
    /\ UNCHANGED << apiKey, validation, aborted, health, conc, variant >>

\* the exchange is over; the next request starts from a fresh context
requestDone ==
    /\ pc = "responded"
    /\ pc' = "idle"
    /\ req' = MalformedRequest
    /\ requestId' = Absent
    /\ validation' = NoValidation
    /\ timer' = "unarmed"
    /\ aborted' = FALSE
    /\ calls' = 0
    /\ upstream' = "silent"
    /\ outbound' = NoOutbound
    /\ fetched' = 0
    /\ fetchedBody' = Absent
    /\ resHeader' = Absent
    /\ response' = NoResponse
    /\ sent' = 0
    /\ caught' = Absent
    /\ UNCHANGED apiKey
    /\ UNCHANGED << health, conc, variant >>

\* variant of healthCheck: the probe reports a missing credential as 503
healthCheckDegraded ==
    /\ health' = [status |-> IF apiKey THEN 200 ELSE 503, body |-> HealthBody]
    /\ UNCHANGED << apiKey, pc, req, requestId, validation, timer, aborted,
                    calls, upstream, outbound, fetched, fetchedBody, resHeader,
                    response, sent, caught, conc, variant >>

\* GET /health: res.json(health), at any moment
healthCheck ==
    /\ health' = [status |-> 200, body |-> HealthBody]
    /\ UNCHANGED << apiKey, pc, req, requestId, validation, timer, aborted,
                    calls, upstream, outbound, fetched, fetchedBody, resHeader,
                    response, sent, caught, conc, variant >>

\* the same steps for one of several requests in flight, conc[i] holding
\* the locals of its handler
Slot(i, r) ==
    /\ conc' = [conc EXCEPT ![i] = r]
    /\ UNCHANGED << apiKey, single, health, variant >>

concReceive(i) ==
    /\ conc[i].pc = "idle"
    /\ \E r \in ConcRequests :
          Slot(i, [conc[i] EXCEPT !.pc = "parser", !.req = r])

concParser(i) ==
    /\ conc[i].pc = "parser"
    /\ IF conc[i].req.json = "malformed" \/ BodyBytes(conc[i].req) > jsonLimit
       THEN Slot(i, [conc[i] EXCEPT !.pc = "responded", !.status = 500])
       ELSE Slot(i, [conc[i] EXCEPT !.pc = "handler"])

concHandler(i) ==
    /\ conc[i].pc = "handler"
    /\ IF ~apiKey
       THEN Slot(i, [conc[i] EXCEPT !.pc = "responded", !.status = 500])
       ELSE IF ~validateRequest(conc[i].req.body).valid
       THEN Slot(i, [conc[i] EXCEPT !.pc = "responded", !.status = 400])
       ELSE \E mode \in UpstreamModes :
               Slot(i, [conc[i] EXCEPT !.pc = "awaitFetch", !.timer = "armed",
                                       !.calls = @ + 1, !.upstream = mode])

concFetchResolve(i) ==
    /\ conc[i].pc = "awaitFetch"
    /\ conc[i].upstream \in { "responds", "stallsBody" }
    /\ \E status \in Statuses :
          Slot(i, [conc[i] EXCEPT !.fetched = status, !.timer = "cleared",
                                  !.pc = IF Ok(status) THEN "awaitJson"
                                         ELSE "awaitErrorJson"])

concFetchReject(i) ==
    /\ conc[i].pc = "awaitFetch"
    /\ conc[i].upstream = "fails"
    /\ Slot(i, [conc[i] EXCEPT !.timer = "cleared", !.pc = "responded",
                               !.status = 500])

\* variant of concTimerFire: one controller is shared by the requests
concTimerFireShared(i) ==
    /\ conc[i].timer = "armed"
    /\ conc' = [j \in Slots |->
                  IF j = i
                  THEN [conc[j] EXCEPT !.timer = "fired", !.aborted = TRUE,
                                       !.pc = "responded", !.status = 504]
                  ELSE IF conc[j].pc = "awaitFetch"
                  THEN [conc[j] EXCEPT !.aborted = TRUE, !.timer = "cleared",
                                       !.pc = "responded", !.status = 504]
                  ELSE conc[j]]
    /\ UNCHANGED << apiKey, single, health, variant >>

concTimerFire(i) ==
    /\ conc[i].timer = "armed"
    /\ Slot(i, [conc[i] EXCEPT !.timer = "fired", !.aborted = TRUE,
                               !.pc = "responded", !.status = 504])

concErrorBodySettle(i) ==
    /\ conc[i].pc = "awaitErrorJson"
    /\ conc[i].upstream = "responds"
    /\ \E kind \in ErrorBodyKinds :
          Slot(i, [conc[i] EXCEPT !.fetchedBody = kind, !.pc = "responded",
                      !.status = IF kind = "null" THEN 500
                                 ELSE UpstreamErrorStatus(conc[i].fetched)])

concSuccessBodySettle(i) ==
    /\ conc[i].pc = "awaitJson"
    /\ conc[i].upstream = "responds"
    /\ \E kind \in SuccessBodyKinds :
          Slot(i, [conc[i] EXCEPT !.fetchedBody = kind, !.pc = "responded",
                      !.status = IF kind \in { "unparseable", "null" }
                                 THEN 500 ELSE 200])

concDone(i) ==
    /\ conc[i].pc = "responded"
    /\ Slot(i, IdleSlot)

ConcNext ==
    \E i \in Slots :
        \/ concReceive(i)
        \/ concParser(i)
        \/ concHandler(i)
        \/ concFetchResolve(i)
        \/ concFetchReject(i)
        \/ concTimerFire(i)
        \/ concErrorBodySettle(i)
        \/ concSuccessBodySettle(i)
        \/ concDone(i)

ConcSpec == Init /\ [][ConcNext]_vars

\* the steps of the other deployments
HasBlock(r) == r.json = "ok" /\ r.body.shape = "block"

\* exports.handler is invoked with an event
handlerInvoke ==
    /\ variant.pc = "idle"
    /\ \E method \in Methods, r \in VariantRequests :
          Variant([IdleVariant EXCEPT !.kind = "netlify", !.pc = "invoked",
                                      !.method = method, !.req = r])

\* variant of handlerMethodGate: the credential is tested before the
\* method
handlerCredentialFirst ==
    /\ variant.kind = "netlify"
    /\ variant.pc = "invoked"
    /\ IF ~apiKey
       THEN Variant(Return(variant, 500, variantConfigErrorText("netlify"),
                           Absent))
       ELSE IF variant.method = "OPTIONS"
       THEN Variant(Return(variant, 200, Absent, Absent))
       ELSE IF variant.method # "POST"
       THEN Variant(Return(variant, 405, MethodNotAllowedText, Absent))
       ELSE Variant([variant EXCEPT !.pc = "handler"])

\* OPTIONS is answered 200 with an empty body, any other method but POST 405
handlerMethodGate ==
    /\ variant.kind = "netlify"
    /\ variant.pc = "invoked"
    /\ IF variant.method = "OPTIONS"
       THEN Variant(Return(variant, 200, Absent, Absent))
       ELSE IF variant.method # "POST"
       THEN Variant(Return(variant, 405, MethodNotAllowedText, Absent))
       ELSE Variant([variant EXCEPT !.pc = "handler"])

\* JSON.parse(event.body) throws inside the try block, before the timer
handlerParseFail ==
    /\ variant.kind = "netlify"
    /\ variant.pc = "handler"
    /\ apiKey
    /\ variant.req.json = "malformed"
    /\ Variant(Return(variant, 500, SyntaxErrorText, Absent))

\* a request reaches the server of part_000 or part_001
serverReceive(k) ==
    /\ variant.pc = "idle"
    /\ \E r \in VariantRequests :
          Variant([IdleVariant EXCEPT !.kind = k, !.pc = "parser", !.req = r])

\* express.json refuses the body; no error middleware is installed, the
\* default handler answers with the status of the error
expressJsonReject(k) ==
    /\ variant.kind = k
    /\ variant.pc = "parser"
    /\ \/ /\ variant.req.json # "ok"
          /\ Variant(Return(variant, 400, SyntaxErrorText, Absent))
       \/ /\ variant.req.json = "ok"
          /\ BodyBytes(variant.req) > variantLimit
          /\ Variant(Return(variant, 413, TooLargeText, Absent))

expressJsonAccept(k) ==
    /\ variant.kind = k
    /\ variant.pc = "parser"
    /\ variant.req.json = "ok"
    /\ BodyBytes(variant.req) <= variantLimit
    /\ Variant([variant EXCEPT !.pc = "handler"])

variantNoApiKey(k) ==
    /\ variant.kind = k
    /\ variant.pc = "handler"
    /\ ~apiKey
    /\ Variant(Return(variant, 500, variantConfigErrorText(k), Absent))

\* the timer is armed, then messages[0].content[0] is dereferenced while
\* the arguments of fetch() are built: the TypeError is caught, the timer
\* stays pending
variantBuildFail(k) ==
    /\ variant.kind = k
    /\ variant.pc = "handler"
    /\ apiKey
    /\ variant.req.json # "malformed"
    /\ ~HasBlock(variant.req)
    /\ Variant(Return([variant EXCEPT !.timer = "armed",
                                      !.deadline = variantTimeout(k)],
                      500,
                      IF variant.req.json = "null" THEN NullPayloadText
                      ELSE UndefinedBlockText,
                      Absent))

\* the timer is armed and fetch() is called, whatever the block holds
variantFetch(k) ==
    /\ variant.kind = k
    /\ variant.pc = "handler"
    /\ apiKey
    /\ HasBlock(variant.req)
    /\ \E mode \in UpstreamModes :
          Variant([variant EXCEPT
                     !.pc = "awaitFetch", !.timer = "armed",
                     !.deadline = variantTimeout(k), !.calls = @ + 1,
                     !.upstream = mode,
                     !.outbound = variantOutbound(k, variant.req.body.content)])

\* fetch() resolves with the status line; clearTimeout(timeoutId)
variantFetchResolve(k) ==
    /\ variant.kind = k
    /\ variant.pc = "awaitFetch"
    /\ variant.upstream \in { "responds", "stallsBody" }
    /\ \E status \in Statuses :
          Variant([variant EXCEPT
                     !.timer = "cleared", !.fetched = status,
                     !.pc = IF Ok(status) THEN "awaitJson"
                            ELSE "awaitErrorJson"])

\* fetch() rejects: the catch block answers 500 with the message and
\* does not clear the timer
variantFetchReject(k) ==
    /\ variant.kind = k
    /\ variant.pc = "awaitFetch"
    /\ variant.upstream = "fails"
    /\ \E message \in NetworkErrorTexts :
          Variant(Return(variant, 500, message, Absent))

\* the timer expires while fetch() is pending: abort, AbortError, 504
variantTimerFire(k) ==
    /\ variant.kind = k
    /\ variant.pc = "awaitFetch"
    /\ variant.timer = "armed"
    /\ Variant(Return([variant EXCEPT !.timer = "fired", !.aborted = TRUE],
                      504, variantTimeoutText(k), Absent))

\* the timer left pending expires after the response
variantTimerLate(k) ==
    /\ variant.kind = k
    /\ variant.pc = "returned"
    /\ variant.timer = "armed"
    /\ Variant([variant EXCEPT !.timer = "fired", !.aborted = TRUE])

\* !response.ok: every status is thrown as an Error and answered 500
variantErrorBodySettle(k) ==
    /\ variant.kind = k
    /\ variant.pc = "awaitErrorJson"
    /\ variant.upstream = "responds"
    /\ \E kind \in ErrorBodyKinds :
          Variant(Return([variant EXCEPT !.fetchedBody = kind], 500,
                         CASE kind = "message" -> UpstreamMessage
                           [] kind = "null" -> NullErrorText
                           [] OTHER -> ApiErrorText(variant.fetched),
                         Absent))

\* response.json() of a success: the value is passed through, null too
variantSuccessBodySettle(k) ==
    /\ variant.kind = k
    /\ variant.pc = "awaitJson"
    /\ variant.upstream = "responds"
    /\ \E kind \in SuccessBodyKinds :
          IF kind = "unparseable"
          THEN Variant(Return([variant EXCEPT !.fetchedBody = kind], 500,
                              InvalidJsonText, Absent))
          ELSE Variant(Return([variant EXCEPT !.fetchedBody = kind], 200,
                              Absent, kind))

\* the invocation is over and nothing of it is pending
variantDone(k) ==
    /\ variant.kind = k
    /\ variant.pc = "returned"
    /\ variant.timer # "armed"
    /\ Variant(IdleVariant)

\* the steps of the function handler once invoked
FnHandling ==
    \/ handlerMethodGate
    \/ handlerParseFail
    \/ variantNoApiKey("netlify")
    \/ variantBuildFail("netlify")
    \/ variantFetch("netlify")
    \/ variantFetchResolve("netlify")
    \/ variantFetchReject("netlify")
    \/ variantTimerFire("netlify")
    \/ variantTimerLate("netlify")
    \/ variantErrorBodySettle("netlify")
    \/ variantSuccessBodySettle("netlify")

FnNext ==
    \/ handlerInvoke
    \/ FnHandling
    \/ variantDone("netlify")

ServerNext ==
    \E k \in ServerKinds :
        \/ serverReceive(k)
        \/ expressJsonReject(k)
        \/ expressJsonAccept(k)
        \/ variantNoApiKey(k)
        \/ variantBuildFail(k)
        \/ variantFetch(k)
        \/ variantFetchResolve(k)
        \/ variantFetchReject(k)
        \/ variantTimerFire(k)
        \/ variantTimerLate(k)
        \/ variantErrorBodySettle(k)
        \/ variantSuccessBodySettle(k)
        \/ variantDone(k)

VariantNext == FnNext \/ ServerNext

FnSpec == Init /\ [][FnNext]_vars
FnFairSpec == FnSpec /\ WF_vars(FnHandling)
VariantSpec == Init /\ [][VariantNext]_vars

Next ==
    \/ healthCheck
    \/ requestIdMiddleware
    \/ jsonParserAccept
    \/ jsonParserReject
    \/ extractNoApiKey
    \/ extractInvalid
    \/ extractFetch
    \/ fetchResolve
    \/ fetchReject
    \/ timerFire
    \/ errorBodySettle
    \/ successBodySettle
    \/ requestDone

Spec == Init /\ [][Next]_vars

\* the timer of the event loop fires when due, and a settled promise
\* resumes the handler
LiveSpec == Spec /\ WF_vars(timerFire)

\* the steps the event loop runs once they are due: middleware, handler
\* continuations, timer callbacks, and the answers of an upstream that
\* does answer
Handling ==
    \/ jsonParserAccept
    \/ jsonParserReject
    \/ extractNoApiKey
    \/ extractInvalid
    \/ extractFetch
    \/ fetchResolve
    \/ fetchReject
    \/ timerFire
    \/ errorBodySettle
    \/ successBodySettle

FairSpec == Spec /\ WF_vars(Handling)

TypeOK ==
    /\ apiKey \in BOOLEAN
    /\ pc \in { "idle", "parser", "handler", "awaitFetch", "awaitErrorJson",
                "awaitJson", "responded" }
    /\ req \in Requests
    /\ timer \in { "unarmed", "armed", "cleared", "fired" }
    /\ aborted \in BOOLEAN
    /\ calls \in 0..2
    /\ upstream \in UpstreamModes
    /\ fetched \in Statuses \cup {0}
    /\ sent \in 0..2

-----------------------------------------------------------------------------
(* Properties                                                              *)

\* the body parser let the request through to POST /extract
ReachedHandler == req.json = "ok" /\ BodyBytes(req) <= jsonLimit

\* validateRequest has run for this request
Validated == validation # NoValidation

Reasons(errors) == { errors[i].reason : i \in 1..Len(errors) }

AllowedMediaTypes == { "application/pdf", "image/jpeg", "image/jpg",
                       "image/png", "image/gif", "image/webp" }

\* C1: once POST /extract has answered a request whose upstream call came
\* back with a non-success status, the caller's status is 500 for 401,
\* 429 for 429, 400 for 400 and 500 for any other, and for 401 the body
\* does not carry the message of the upstream error body.
C1_StatusMapping ==
    (pc = "responded" /\ fetched # 0 /\ ~Ok(fetched)) =>
        /\ response.status = (CASE fetched = 401 -> 500
                                [] fetched = 429 -> 429
                                [] fetched = 400 -> 400
                                [] OTHER -> 500)
        /\ fetched = 401 =>
              /\ response.body.error # UpstreamMessage
              /\ response.body.details.text # UpstreamMessage

\* C2: when the upstream never answers a call that has begun, the deadline
\* timer eventually fires, the call is aborted through its signal, and the
\* caller gets 504 with the retry suggestion.
C2_Timeout ==
    (pc = "awaitFetch" /\ upstream = "silent")
        ~> (/\ pc = "responded"
            /\ timer = "fired"
            /\ aborted
            /\ response.status = 504
            /\ response.body.suggestion = SuggestionText)

C2_Witness ==
    /\ pc = "responded"
    /\ upstream = "silent"
    /\ calls = 1
    /\ aborted
    /\ response.status = 504

\* C3: without the credential every request ends with 500 and no upstream
\* call; every request that reaches POST /extract gets the fixed
\* configuration message, whether its body is valid or not, and is not
\* validated.
C3_NoCredential ==
    (~apiKey /\ pc = "responded") =>
        /\ response.status = 500
        /\ calls = 0
        /\ ReachedHandler =>
              /\ response.body.error = ConfigErrorText
              /\ response.body.details = NoDetails
              /\ ~Validated

C3_Witness ==
    /\ ~apiKey
    /\ pc = "responded"
    /\ ReachedHandler
    /\ req.body.shape = "block"
    /\ req.body.content.source.media_type = "application/zip"
    /\ response.status = 500

\* C4: a body without messages[0].content[0] is rejected by validateRequest
\* with the single reason 'Missing document content', and POST /extract
\* (credential present) answers 400 with that list and calls nothing.
C4_MissingContent ==
    (apiKey /\ pc = "responded" /\ ReachedHandler /\ req.body.shape # "block") =>
        /\ ~validation.valid
        /\ Len(validation.errors) = 1
        /\ validation.errors[1].reason = "Missing document content"
        /\ response.status = 400
        /\ response.body.details.kind = "list"
        /\ response.body.details.list = validation.errors
        /\ calls = 0

C4_Witness ==
    /\ apiKey
    /\ pc = "responded"
    /\ ReachedHandler
    /\ req.body.shape = "falsyBlock"
    /\ response.status = 400

\* C5: with the content block present, a media_type outside the allow-list
\* (a missing one included) fails validation with a reason that lists the
\* six allowed types, and POST /extract answers 400; a media_type inside
\* the allow-list adds no such reason.
C5_MediaType ==
    (Validated /\ req.body.shape = "block") =>
        LET mediaType == req.body.content.source.media_type
            listed == { e \in Range(validation.errors) :
                           e.reason = "Invalid media type. Allowed: " }
        IN  IF mediaType \in AllowedMediaTypes
            THEN listed = {}
            ELSE /\ ~validation.valid
                 /\ Cardinality(listed) = 1
                 /\ \A e \in listed :
                       /\ Len(e.allowed) = 6
                       /\ Range(e.allowed) = AllowedMediaTypes
                 /\ pc = "responded"
                 /\ response.status = 400
                 /\ validation.errors = response.body.details.list

C5_Witness ==
    /\ pc = "responded"
    /\ Validated
    /\ req.body.shape = "block"
    /\ req.body.content.type = "document"
    /\ req.body.content.source.type = "base64"
    /\ req.body.content.source.media_type = "application/zip"
    /\ Len(validation.errors) = 1
    /\ response.status = 400

\* C6: validateRequest reports the size reason exactly when 0.75 times
\* the length of the data is strictly above the maximum of 50 MiB, that
\* is when 3 * length > 4 * maximum.
C6_SizeCheck ==
    (Validated /\ req.body.shape = "block") =>
        LET d == req.body.content.source.data
            length == IF d.kind = "undef" THEN 0 ELSE d.len
        IN  ("File too large. Maximum size: " \in Reasons(validation.errors))
               <=> (3 * length > 4 * (50 * 1024 * 1024))

\* the smallest estimate above the maximum is refused, for its size only
C6_Witness ==
    /\ Validated
    /\ req.body.shape = "block"
    /\ req.body.content.source.data.len = MaxPassingLength + 1
    /\ 3 * (req.body.content.source.data.len - 1) <= 4 * maxFileSize
    /\ Reasons(validation.errors) = { "File too large. Maximum size: " }
    /\ response.status = 400

\* C7: an otherwise valid request whose base64 string has the largest
\* length that the size check accepts is not refused before the handler,
\* passes validation and reaches the upstream call.
C7_AtMaximumSucceeds ==
    (/\ pc = "responded"
     /\ apiKey
     /\ req.json = "ok"
     /\ req.pad = MinEnvelope
     /\ req.body.shape = "block"
     /\ req.body.content.type \in { "image", "document" }
     /\ req.body.content.source.type = "base64"
     /\ req.body.content.source.media_type \in AllowedMediaTypes
     /\ req.body.content.source.data.kind = "string"
     /\ req.body.content.source.data.len = MaxPassingLength)
        => (Validated /\ validation.valid /\ calls = 1)

CheckOrder == << "Invalid content type. Must be \"image\" or \"document\"",
                "Invalid source type. Must be \"base64\"",
                "Missing base64 data",
                "Invalid media type. Allowed: ",
                "File too large. Maximum size: " >>

CheckRank(reason) == CHOOSE i \in 1..Len(CheckOrder) : CheckOrder[i] = reason

\* C8: with the content block present, the error list of validateRequest
\* holds one reason for each failing check among content type, source
\* type, data, media type and size, in that order, none for a passing
\* check, and valid is TRUE exactly when the list is empty.
C8_AllChecksCollected ==
    (Validated /\ req.body.shape = "block") =>
        LET content == req.body.content
            d == content.source.data
            length == IF d.kind = "undef" THEN 0 ELSE d.len
            errors == validation.errors
            failing == { i \in 1..5 :
                \/ i = 1 /\ content.type \notin { "image", "document" }
                \/ i = 2 /\ content.source.type # "base64"
                \/ i = 3 /\ (d.kind = "undef" \/ (d.kind = "string" /\ d.len = 0))
                \/ i = 4 /\ content.source.media_type \notin AllowedMediaTypes
                \/ i = 5 /\ 3 * length > 4 * (50 * 1024 * 1024) }
        IN  /\ Reasons(errors) = { CheckOrder[i] : i \in failing }
            /\ \A i, j \in 1..Len(errors) :
                  i < j => CheckRank(errors[i].reason) < CheckRank(errors[j].reason)
            /\ validation.valid <=> (errors = << >>)

C8_Witness ==
    /\ Validated
    /\ req.body.shape = "block"
    /\ Len(validation.errors) = 4
    /\ validation.errors[1].reason = CheckOrder[1]
    /\ validation.errors[4].reason = CheckOrder[5]

\* C9: when the upstream answers a success status with a JSON body, the
\* caller gets 200 and a body equal to that JSON body, with no field
\* added.
C9_PassThrough ==
    (pc = "responded" /\ fetched # 0 /\ Ok(fetched)
        /\ fetchedBody # "unparseable") =>
        /\ response.status = 200
        /\ response.body.data = fetchedBody
        /\ response.body.requestId = Absent
        /\ response.body.error = Absent
        /\ response.body.details = NoDetails
        /\ response.body.suggestion = Absent

\* C10: a request issues at most one upstream call whatever its outcome,
\* and exactly one once it has a credential and has passed validation.
C10_OneCall ==
    /\ calls <= 1
    /\ (Validated /\ validation.valid) => calls = 1
    /\ (pc = "responded" /\ response.status \in { 200, 429, 504 }) => calls = 1

C10_Witness ==
    /\ pc = "responded"
    /\ upstream = "fails"
    /\ response.status = 500
    /\ calls = 1

\* C11: every request ends in exactly one response: one is eventually
\* sent, and never a second one.
C11_ExactlyOneResponse ==
    /\ [](sent <= 1)
    /\ (pc = "parser") ~> (pc = "responded" /\ sent = 1)

\* C12: every error response carries in its body the correlation
\* identifier given to the request at entry, which is also the value of
\* the X-Request-ID header.
C12_CorrelationId ==
    (pc = "responded" /\ response.status # 200) =>
        /\ requestId \in RequestIds
        /\ response.body.requestId = requestId
        /\ response.header = requestId

C12_Witness ==
    /\ pc = "responded"
    /\ req.json = "malformed"
    /\ response.status = 500
    /\ response.body.requestId = requestId

\* a failure of the upstream call below the HTTP status: the connection
\* failed, or a success status came with a body that is not JSON
UpstreamTransportFailure ==
    \/ upstream = "fails" /\ caught \in NetworkErrorTexts
    \/ fetched # 0 /\ Ok(fetched) /\ fetchedBody = "unparseable"

C19_HealthAlwaysOk ==
    /\ ENABLED healthCheck
    /\ health # NoHealth =>
          /\ health.status = 200
          /\ health.body.status = "ok"
          /\ health.body.apiConfigured = apiKey

C19_Witness ==
    /\ ~apiKey
    /\ health.status = 200
    /\ pc = "responded"
    /\ response.status = 500

\* C20: the deadline bounds the whole upstream exchange: as long as the
\* handler waits for the upstream, for the headers or for the body, the
\* deadline timer is still pending.
C20_DeadlineBoundsExchange ==
    (pc \in { "awaitFetch", "awaitErrorJson", "awaitJson" }) => timer = "armed"

\* C18: the body sent upstream holds the configured model and max_tokens
\* and one user message of two blocks: the document block with the type,
\* media_type and data of the request, source type 'base64' and no other
\* property of the inbound source, then a text block with the fixed
\* prompt.
C18_OutboundBody ==
    (calls >= 1) =>
        /\ outbound.model = "claude-sonnet-4-20250514"
        /\ outbound.max_tokens = 4096
        /\ outbound.role = "user"
        /\ ~outbound.extra
        /\ outbound.document.type = req.body.content.type
        /\ outbound.document.source.type = "base64"
        /\ outbound.document.source.media_type = req.body.content.source.media_type
        /\ outbound.document.source.data = req.body.content.source.data
        /\ ~outbound.document.source.extra
        /\ outbound.text = "Extract debt settlement payment details from this document. ..."

C18_Witness ==
    /\ calls = 1
    /\ req.body.content.source.extra
    /\ req.body.content.type = "document"
    /\ outbound.document.type = "document"
    /\ outbound.document.source.data.len = 4

\* the status server.js answers, as a function of the credential, the
\* request, whether the deadline fired, and the upstream status and body
ExpectedStatus(key, r, fired, status, kind) ==
    IF r.json # "ok" \/ BodyBytes(r) > jsonLimit THEN 500
    ELSE IF ~key THEN 500
    ELSE IF ~validateRequest(r.body).valid THEN 400
    ELSE IF fired THEN 504
    ELSE IF status = 0 THEN 500
    ELSE IF status = 200 THEN (IF kind \in JsonObjects THEN 200 ELSE 500)
    ELSE IF kind = "null" THEN 500
    ELSE IF status \in { 400, 429 } THEN status
    ELSE 500

\* the body server.js answers, without the correlation identifier; text is
\* the message of a failure of the connection
ExpectedBody(key, r, fired, status, kind, text) ==
    LET E(error, details, suggestion) ==
            [error |-> error, details |-> details, suggestion |-> suggestion,
             requestId |-> Absent, data |-> Absent]
        detail == IF kind = "message" THEN UpstreamMessage
                  ELSE ApiErrorText(status)
    IN  IF r.json # "ok" \/ BodyBytes(r) > jsonLimit
        THEN E(UnexpectedText, NoDetails, Absent)
        ELSE IF ~key THEN E(ConfigErrorText, NoDetails, Absent)
        ELSE IF ~validateRequest(r.body).valid
        THEN E(InvalidRequestText, DetailsList(validateRequest(r.body).errors),
               Absent)
        ELSE IF fired THEN E(TimeoutText, NoDetails, SuggestionText)
        ELSE IF status = 0 THEN E(text, NoDetails, Absent)
        ELSE IF status = 200
        THEN (CASE kind \in JsonObjects ->
                      [E(Absent, NoDetails, Absent) EXCEPT !.data = kind]
                [] kind = "null" -> E(NullUsageText, NoDetails, Absent)
                [] OTHER -> E(InvalidJsonText, NoDetails, Absent))
        ELSE IF kind = "null" THEN E(NullErrorText, NoDetails, Absent)
        ELSE CASE status = 401 -> E(InvalidKeyText, NoDetails, Absent)
               [] status = 429 -> E(RateLimitText, NoDetails, Absent)
               [] status = 400 -> E(InvalidDocumentText, DetailsText(detail), Absent)
               [] OTHER -> E(detail, NoDetails, Absent)

\* C15: requests in flight at the same time are independent: a step of
\* one request changes the locals of no other, a request is aborted only
\* by the expiry of its own timer, and the status of a request is decided
\* by its own body, the configuration and its own upstream outcome.
C15_Independent ==
    /\ [](\A i \in Slots :
            conc[i].pc = "responded" =>
                conc[i].status = ExpectedStatus(apiKey, conc[i].req,
                                                conc[i].timer = "fired",
                                                conc[i].fetched,
                                                conc[i].fetchedBody))
    /\ [][\A i, j \in Slots :
            (i # j /\ conc'[i] # conc[i]) => conc'[j] = conc[j]]_vars
    /\ [][\A i \in Slots :
            (conc'[i].aborted /\ ~conc[i].aborted) =>
                (conc[i].timer = "armed" /\ conc'[i].timer = "fired")]_vars

C15_Witness ==
    /\ conc[1].pc = "responded"
    /\ conc[1].aborted
    /\ conc[1].status = 504
    /\ conc[2].pc = "awaitFetch"
    /\ conc[2].timer = "armed"
    /\ ~conc[2].aborted

\* C16: the status and the body of a response, the correlation identifier
\* set aside, are a function of the request body, the configuration and
\* the upstream outcome, and nothing of a request survives its end, so
\* equal requests with equal outcomes get equal answers whatever was
\* handled before.
C16_Deterministic ==
    /\ [](pc = "responded" =>
            /\ response.status = ExpectedStatus(apiKey, req, timer = "fired",
                                                fetched, fetchedBody)
            /\ [response.body EXCEPT !.requestId = Absent]
                  = ExpectedBody(apiKey, req, timer = "fired", fetched,
                                 fetchedBody, caught))
    /\ [][pc' = "idle" =>
            /\ validation' = NoValidation
            /\ timer' = "unarmed"
            /\ ~aborted'
            /\ calls' = 0
            /\ fetched' = 0
            /\ fetchedBody' = Absent
            /\ caught' = Absent
            /\ response' = NoResponse
            /\ sent' = 0]_vars

C16_Witness ==
    /\ pc = "responded"
    /\ health # NoHealth
    /\ fetched = 200
    /\ fetchedBody = "jsonB"
    /\ response.status = 200
    /\ response.body.data = "jsonB"

\* the inputs the comparison of the deployments ranges over: a POST with
\* a parsed body and, if the upstream answered, a well-formed answer
Comparable(v) ==
    /\ v.pc = "returned"
    /\ v.method = "POST"
    /\ v.req \in { PngRequest, EmptyRequest, ZipRequest, OversizedRequest }
    /\ v.fetchedBody \in { Absent, "noMessage", "message" } \cup JsonObjects

\* whether server.js calls the upstream for this request
ExpectedCall(key, r) ==
    /\ r.json = "ok"
    /\ BodyBytes(r) <= jsonLimit
    /\ key
    /\ validateRequest(r.body).valid

\* C14: for every credential state, POST body and upstream outcome the
\* function handler and part_000 answer with the status of server.js, take
\* the same decision to call the upstream, and do not repeat the upstream
\* message in the answer to an upstream 401.
C14_VariantsAgree ==
    (variant.kind \in { "netlify", "part_000" } /\ Comparable(variant)) =>
        /\ variant.status = ExpectedStatus(apiKey, variant.req,
                                           variant.timer = "fired"
                                               /\ variant.calls > 0,
                                           variant.fetched,
                                           variant.fetchedBody)
        /\ (variant.calls > 0) = ExpectedCall(apiKey, variant.req)
        /\ (variant.fetched = 401 => variant.error # UpstreamMessage)

\* C17: an invocation of the function handler returns at most one
\* response object, with a status code, and every invocation returns one.
C17_OneResponseObject ==
    /\ [](variant.sent <= 1)
    /\ [](variant.pc = "returned" => variant.status \in { 200, 405, 500, 504 })
    /\ (variant.pc = "invoked") ~> (variant.pc = "returned" /\ variant.sent = 1)

\* C21: in every handler that arms a deadline timer, the timer is no
\* longer pending when the response is emitted: it has fired or it has
\* been cleared.
C21_NoTimerOutlivesRequest ==
    /\ (pc = "responded" => timer # "armed")
    /\ (variant.pc = "returned" /\ variant.sent = 1 /\ variant.status # 0)
          => variant.timer # "armed"

\* C22: 504 is answered only when the timer fired while fetch() was
\* pending; an upstream response or a connection failure that settles
\* first decides the outcome, which is then never 504, and once the
\* response has arrived the timer can no longer fire.
C22_TimeoutOnlyWhilePending ==
    /\ (pc = "responded" /\ response.status = 504)
          => (timer = "fired" /\ aborted /\ fetched = 0
              /\ caught = AbortErrorText /\ calls = 1)
    /\ (pc = "responded" /\ (fetched # 0 \/ caught \in NetworkErrorTexts))
          => (response.status # 504 /\ timer = "cleared" /\ ~aborted)
    /\ (fetched # 0 => ~ENABLED timerFire)

C22_Witness ==
    /\ pc = "responded"
    /\ fetched = 429
    /\ timer = "cleared"
    /\ response.status = 429
    /\ ~ENABLED timerFire

\* C23: a non-success upstream status whose body is not JSON or has no
\* error.message gives the detail 'API Error: <status>' and the status
\* mapping is unchanged: 400 gives 400 with that detail, 401 and 429 their
\* fixed answers, any other status 500 with that detail as the error.
C23_ParseFailureAbsorbed ==
    (/\ pc = "responded"
     /\ fetched # 0
     /\ ~Ok(fetched)
     /\ fetchedBody \in { "unparseable", "noMessage", "null" })
        => /\ response.status = UpstreamErrorStatus(fetched)
           /\ response.body = UpstreamErrorBody(fetched, ApiErrorText(fetched))

\* C24: an upstream call is issued only with the credential present and
\* an empty error list from validateRequest, so the block sent upstream
\* has type image or document, source type base64, non-empty data, an
\* allow-listed media type and an estimated size within the maximum.
C24_GatesBeforeCall ==
    (calls >= 1) =>
        /\ apiKey
        /\ validation = [valid |-> TRUE, errors |-> << >>]
        /\ outbound.document.type \in { "image", "document" }
        /\ outbound.document.source.type = "base64"
        /\ outbound.document.source.data.kind # "undef"
        /\ DataLength(outbound.document.source.data) > 0
        /\ outbound.document.source.media_type \in Range(validMediaTypes)
        /\ 3 * DataLength(outbound.document.source.data) <= 4 * maxFileSize

\* C25: in the function handler the method gate comes first: OPTIONS is
\* answered 200 with an empty body and any other method but POST 405,
\* whatever the credential and the event body, and neither calls the
\* upstream nor arms the timer.
C25_MethodGateFirst ==
    (variant.kind = "netlify" /\ variant.method # "POST") =>
        /\ variant.calls = 0
        /\ variant.timer = "unarmed"
        /\ variant.pc \in { "invoked", "returned" }
        /\ variant.pc = "returned" =>
              /\ variant.sent = 1
              /\ variant.data = Absent
              /\ IF variant.method = "OPTIONS"
                 THEN variant.status = 200 /\ variant.error = Absent
                 ELSE variant.status = 405
                      /\ variant.error = "Method Not Allowed"

C25_Witness ==
    /\ variant.kind = "netlify"
    /\ variant.pc = "returned"
    /\ variant.method = "GET"
    /\ ~apiKey
    /\ variant.req = MalformedRequest
    /\ variant.status = 405

====
